---- MODULE Spec2Model ----
(***************************************************************************)
(* A model of the monitor-setup geometry engine (monitor_positions.py).    *)
(*                                                                         *)
(* Python floats are modelled as fixed-point integers:                     *)
(*   lengths    in 1/LenScale centimetres,                                 *)
(*   angles     in 1/AngScale radians (1/DegScale degrees),                *)
(*   sin/cos    values scaled by AngScale.                                 *)
(* A quotient that the code hands to its caller (a position i/(n-1), a     *)
(* converted width, a mean of two angles) is kept exact, as a fraction     *)
(* <<num, den>>.                                                           *)
(***************************************************************************)
EXTENDS Integers, Sequences, FiniteSets, TLC

VARIABLES
    input,              \* the caller's list of Monitor objects
    pc,                 \* how far Setup.__init__ has come: "none", "left", "right",
                        \* "finish", "built" or "failed"
    viewing_distance,   \* self.viewing_distance
    mode,               \* the mode argument of Setup.__init__
    monitors,           \* self.monitors
    left_monitors,      \* what reversed(left_monitors) still holds (0-based indices into input)
    right_monitors,     \* the right monitors still to place
    setup,              \* what the caller holds: "None" or "Setup" (the object of self.monitors)
    calls,              \* the calls of _add_monitor so far
    call,               \* the last call on the built Setup: its name and arguments
    ret,                \* what the last operation returned
    exc,                \* the exception the last operation raised, or "none"
    column              \* app.py: the widgets, monitor_data and line of one create_column()

\* the variables of the geometry engine
engine == <<input, pc, viewing_distance, mode, monitors, left_monitors, right_monitors,
            setup, calls, call, ret, exc>>

vars == <<input, pc, viewing_distance, mode, monitors, left_monitors, right_monitors,
          setup, calls, call, ret, exc, column>>

\* ------------------------------------------------------------ bounds

MaxMonitors == 4
MaxSamples == 3
MaxNumMonitors == 2

\* longest monitor_data list of app.py that is explored
MaxData == 2

\* ------------------------------------------------------------ numbers

LenScale == 10 * 10
AngScale == 100 * 100
DegScale == 10 * 10

pi == 31416
HalfPi == pi \div 2
TwoPi == 2 * pi

\* the radius of a flat monitor, and the coordinate of "no point"
inf == 0 - 1
nan == 0 - 999999

Abs(a) == IF a < 0 THEN -a ELSE a

\* a / b rounded to the nearest integer, for b > 0
RDiv(a, b) == (2 * a + b) \div (2 * b)

RECURSIVE GCD(_, _)
GCD(a, b) == IF b = 0 THEN a ELSE GCD(b, a % b)

\* the exact fraction n / d, d # 0, in lowest terms with a positive denominator
Reduced(n, d, g) == <<n \div g, d \div g>>
Frac(n, d) ==
    IF d < 0 THEN Reduced(-n, -d, GCD(Abs(n), Abs(d))) ELSE Reduced(n, d, GCD(Abs(n), Abs(d)))

\* the product of two fractions
FracTimes(a, b) == Frac(a[1] * b[1], a[2] * b[2])
FracMul(p, q) == FracTimes(Frac(p[1], q[2]), Frac(q[1], p[2]))

RECURSIVE Sum(_, _)
Sum(seq, k) == IF k = 0 THEN 0 ELSE seq[k] + Sum(seq, k - 1)

RECURSIVE SqrtIter(_, _, _)
SqrtStep(n, lo, hi, mid) ==
    IF mid * mid <= n THEN SqrtIter(n, mid, hi) ELSE SqrtIter(n, lo, mid)
SqrtIter(n, lo, hi) ==
    IF hi - lo <= 1 THEN (IF (hi * hi - n) <= (n - lo * lo) THEN hi ELSE lo)
    ELSE SqrtStep(n, lo, hi, (lo + hi) \div 2)

\* the root of a machine integer is below 46341
sqrt(n) == SqrtIter(n, 0, 46340)

hypot(x, y) == sqrt(x * x + y * y)

\* an angle brought into (-pi, pi]
WrapAngle(a) == ((a + pi - 1) % TwoPi) - (pi - 1)

\* sine of t, 0 <= t <= pi/2: the Taylor series up to t^9, t2 = t * t
SinHorner(t, t2) ==
    RDiv(t * (AngScale - RDiv(RDiv(t2 * (AngScale - RDiv(RDiv(t2 * (AngScale
        - RDiv(RDiv(t2 * (AngScale - RDiv(t2, 72)), AngScale), 42)), AngScale), 20)),
        AngScale), 6)), AngScale)
SinSeries(t) == SinHorner(t, RDiv(t * t, AngScale))

\* cosine of t, 0 <= t <= pi/2: the Taylor series up to t^10, t2 = t * t
CosHorner(t2) ==
    AngScale - RDiv(RDiv(t2 * (AngScale - RDiv(RDiv(t2 * (AngScale - RDiv(RDiv(t2 * (AngScale
        - RDiv(RDiv(t2 * (AngScale - RDiv(t2, 90)), AngScale), 56)), AngScale), 30)),
        AngScale), 12)), AngScale), 2)
CosSeries(t) == CosHorner(RDiv(t * t, AngScale))

SinWrapped(b) ==
    IF b < 0 THEN -SinSeries(IF -b <= HalfPi THEN -b ELSE pi + b)
    ELSE SinSeries(IF b <= HalfPi THEN b ELSE pi - b)
sin(a) == SinWrapped(WrapAngle(a))

CosWrapped(m) == IF m <= HalfPi THEN CosSeries(m) ELSE -CosSeries(pi - m)
cos(a) == CosWrapped(Abs(WrapAngle(a)))

\* atan(v / AngScale) for 0 <= v <= AngScale, to within 4/1000 of a radian
AtanEstimate(v) == RDiv(v * ((pi \div 4) + RDiv(2730 * (AngScale - v), AngScale)), AngScale)

\* t moved by tan(atan2(y, x) - t) = (y cos t - x sin t) / (x cos t + y sin t), which
\* is the difference itself to within 1/AngScale when t is AtanEstimate
AtanCorrect(y, x, t, s, c) == t + RDiv((y * c - x * s) * 100, RDiv(x * c + y * s, 100))

\* the angle in [0, pi/4] of the point (x, y), 0 <= y <= x, 0 < x
AtanOctant(y, x, t) == AtanCorrect(y, x, t, SinSeries(t), CosSeries(t))

\* the angle in [0, pi/2] of the point (x, y), x, y >= 0, not both 0
AtanQuadrant(y, x) ==
    IF y > x THEN HalfPi - AtanOctant(x, y, AtanEstimate(RDiv(x * AngScale, y)))
    ELSE AtanOctant(y, x, AtanEstimate(RDiv(y * AngScale, x)))

Quadrant(t, y, x) ==
    IF y < 0 THEN (IF x < 0 THEN t - pi ELSE -t) ELSE (IF x < 0 THEN pi - t ELSE t)
atan2(y, x) ==
    IF x = 0 /\ y = 0 THEN 0 ELSE Quadrant(AtanQuadrant(Abs(y), Abs(x)), y, x)

\* the angle t in [0, pi/2] with sin(t) = v, for 0 <= v <= AngScale, by bisection
RECURSIVE AsinIter(_, _, _)
AsinStep(v, lo, hi, mid, below) ==
    AsinIter(v, IF below THEN mid ELSE lo, IF below THEN hi ELSE mid)
AsinIter(v, lo, hi) ==
    IF hi - lo <= 1 THEN (IF v >= AngScale THEN hi ELSE lo)
    ELSE AsinStep(v, lo, hi, (lo + hi) \div 2, SinSeries((lo + hi) \div 2) <= v)

asin(v) == IF v < 0 THEN -AsinIter(-v, 0, HalfPi) ELSE AsinIter(v, 0, HalfPi)

\* an angle in 1/DegScale degrees
degrees(a) == (a * 180 * DegScale + HalfPi) \div pi

\* ------------------------------------------------------------ units

\* the table, in 1/LenScale centimetres
CM_CONVERSION ==
    [u \in {"mm", "cm", "m", "in", "ft"} |->
        CASE u = "mm" -> LenScale \div 10
          [] u = "cm" -> LenScale
          [] u = "m"  -> 100 * LenScale
          [] u = "in" -> (254 * LenScale) \div 100
          [] u = "ft" -> (3048 * LenScale) \div 100]

\* ------------------------------------------------------------ Point

Point(x, y) == [x |-> x, y |-> y]

from_polar_coord(radius, ph) ==
    Point(RDiv(radius * cos(ph), AngScale), RDiv(radius * sin(ph), AngScale))

add(p, q) == Point(p.x + q.x, p.y + q.y)

sub(p, q) == Point(p.x - q.x, p.y - q.y)

\* multiplication by the scalar f[1] / f[2]
mul(p, f) == Point(RDiv(p.x * f[1], f[2]), RDiv(p.y * f[1], f[2]))

truediv(p, scalar) == Point(RDiv(p.x, scalar), RDiv(p.y, scalar))

phase(p) == atan2(p.y, p.x)

\* <<radius, phase>>
to_polar_coord(p) == <<hypot(p.x, p.y), phase(p)>>

rotate(p, angle) == from_polar_coord(hypot(p.x, p.y), phase(p) + angle)

\* ------------------------------------------------------------ Monitor

\* the exception Monitor(...) raises, or "none"
Monitor_raises(diagonal_unit, radius_unit) ==
    IF diagonal_unit \notin DOMAIN CM_CONVERSION \/ radius_unit \notin DOMAIN CM_CONVERSION
    THEN "ValueError: units" ELSE "none"

\* aspect_ratio is the fraction <<width, height>>
Monitor(diagonal_length, aspect_ratio, radius, diagonal_unit, radius_unit) ==
    [diagonal_length |-> diagonal_length * CM_CONVERSION[diagonal_unit],
     radius          |-> IF radius = inf THEN inf ELSE radius * CM_CONVERSION[radius_unit],
     aspect_ratio    |-> aspect_ratio]

\* atan(1 / self.aspect_ratio)
diagonal_angle(m) == atan2(m.aspect_ratio[2], m.aspect_ratio[1])

arc_width(m) == RDiv(cos(diagonal_angle(m)) * m.diagonal_length, AngScale)

\* self.arc_width() / self.radius, of a curved monitor
central_angle(m) == RDiv(arc_width(m) * AngScale, m.radius)

chord_width(m) ==
    IF m.radius = inf THEN arc_width(m)
    ELSE RDiv(2 * m.radius * sin(RDiv(central_angle(m), 2)), AngScale)

height(m) == RDiv(sin(diagonal_angle(m)) * m.diagonal_length, AngScale)

\* in square centimetres
display_area(m) == RDiv(height(m) * arc_width(m), LenScale * LenScale)

depth(m) ==
    IF m.radius = inf THEN 0
    ELSE RDiv(m.radius * (AngScale - cos(RDiv(central_angle(m), 2))), AngScale)

\* a variant of OutOfRange that shuts out the two ends as well
OutOfRangeOpen(position) == position[1] <= 0 \/ position[1] >= position[2]

\* position is a fraction <<num, den>>, den > 0
OutOfRange(position) == position[1] < 0 \/ position[1] > position[2]

arc_angle_raises(m, position) ==
    IF OutOfRange(position) THEN "ValueError: position" ELSE "none"

arc_angle(m, position) ==
    IF m.radius = inf THEN 0
    ELSE RDiv((position[2] - 2 * position[1]) * central_angle(m), 2 * position[2])

\* ------------------------------------------------------------ PlacedMonitor

midpoint(pm) == truediv(add(pm.left_end, pm.right_end), 2)

get_circle_center(pm) ==
    IF pm.radius = inf THEN Point(nan, nan)
    ELSE add(midpoint(pm),
             from_polar_coord(pm.radius - depth(pm),
                              phase(sub(pm.left_end, pm.right_end)) + HalfPi))

WithCircleCenter(self, circle_center) ==
    [diagonal_length |-> self.diagonal_length,
     radius          |-> self.radius,
     aspect_ratio    |-> self.aspect_ratio,
     left_end        |-> self.left_end,
     right_end       |-> self.right_end,
     circle_center   |-> circle_center]

Ends(m, left_end, right_end) ==
    [diagonal_length |-> m.diagonal_length,
     radius          |-> m.radius,
     aspect_ratio    |-> m.aspect_ratio,
     left_end        |-> left_end,
     right_end       |-> right_end]

PlacedMonitor(m, left_end, right_end) ==
    WithCircleCenter(Ends(m, left_end, right_end),
                     get_circle_center(Ends(m, left_end, right_end)))

get_coordinate_raises(pm, position) ==
    IF OutOfRange(position) THEN "ValueError: position" ELSE "none"

get_coordinate(pm, position) ==
    IF pm.radius = inf
    THEN add(mul(pm.left_end, <<position[2] - position[1], position[2]>>),
             mul(pm.right_end, position))
    ELSE add(pm.circle_center,
             from_polar_coord(pm.radius,
                 RDiv(phase(sub(pm.left_end, pm.circle_center)) * (position[2] - position[1])
                        + phase(sub(pm.right_end, pm.circle_center)) * position[1],
                      position[2])))

viewing_angle_raises(pm, position, angle_unit) ==
    IF angle_unit \notin {"degrees", "radians"} THEN "ValueError: angle unit"
    ELSE get_coordinate_raises(pm, position)

screen_normal(pm, point) ==
    IF pm.radius = inf
    THEN (phase(sub(pm.left_end, pm.right_end)) - HalfPi) % TwoPi
    ELSE phase(sub(point, pm.circle_center))

InAngleUnit(view_angle_radians, angle_unit) ==
    IF angle_unit = "radians" THEN view_angle_radians ELSE degrees(view_angle_radians)

ViewingAngleAt(pm, point, angle_unit) ==
    <<point, InAngleUnit(phase(point) - screen_normal(pm, point), angle_unit)>>

\* <<point, angle>>
viewing_angle(pm, position, angle_unit) ==
    ViewingAngleAt(pm, get_coordinate(pm, position), angle_unit)

\* ------------------------------------------------------------ Setup

\* the exception Setup(...) raises before it places anything, or "none"
Setup_raises(md, distance_unit) ==
    IF distance_unit \notin DOMAIN CM_CONVERSION THEN "ValueError: units"
    ELSE IF md \notin {"perpendicular", "smooth"} THEN "ValueError: mode"
    ELSE "none"

\* Monitor(0, 1), the placeholder of an even smooth setup
Placeholder == Monitor(0, <<1, 1>>, inf, "in", "mm")

\* the reference to the placeholder, which is no input monitor
PlaceholderRef == 0 - 1

Deref(ref) == IF ref = PlaceholderRef THEN Placeholder ELSE input[ref + 1]

\* the indices lo .. hi - 1 of the slice monitors[lo:hi]
Slice(lo, hi) == [k \in 1..(hi - lo) |-> lo + k - 1]

\* a variant of MiddleRotate that rotates the middle of every even setup
RotateWhenEven(num_monitors, md) == num_monitors % 2 = 0

\* the monitor Setup.__init__ places first
MiddleRef(num_monitors, md) ==
    IF num_monitors % 2 = 0 /\ md # "perpendicular" THEN PlaceholderRef
    ELSE num_monitors \div 2

MiddleRotate(num_monitors, md) == num_monitors % 2 = 0 /\ md = "perpendicular"

\* a variant of reversed that keeps the order of the list
unreversed(seq) == seq

\* reversed(seq), as the sequence the loop goes through
reversed(seq) == [k \in 1..Len(seq) |-> seq[Len(seq) + 1 - k]]

LeftSlice(num_monitors, md) == Slice(0, num_monitors \div 2)

RightSlice(num_monitors, md) ==
    IF num_monitors % 2 = 0 /\ md # "perpendicular"
    THEN Slice(num_monitors \div 2, num_monitors)
    ELSE Slice(num_monitors \div 2 + 1, num_monitors)

\* a variant of AsinDomainError for an asin that clamps its argument
AsinClamped(width, end_dist) == FALSE

\* asin((monitor.chord_width() / 2) / end_dist) raises
AsinDomainError(width, end_dist) == width > 2 * end_dist

PerpendicularRaises(width, end_dist) ==
    IF end_dist = 0 THEN "ZeroDivisionError"
    ELSE IF AsinDomainError(width, end_dist) THEN "ValueError: math domain error"
    ELSE "none"

\* the exception _add_monitor raises, or "none"
add_monitor_raises(ms, monitor, side, md) ==
    IF side = "middle" THEN "none"
    ELSE IF md = "perpendicular"
    THEN PerpendicularRaises(chord_width(monitor),
             hypot((IF side = "left" THEN ms[1].left_end ELSE ms[Len(ms)].right_end).x,
                   (IF side = "left" THEN ms[1].left_end ELSE ms[Len(ms)].right_end).y))
    ELSE IF md = "smooth" THEN "none"
    ELSE "ValueError: mode"

\* the middle monitor, half_angle = atan((monitor.chord_width() / 2) / self.viewing_distance)
PlaceMiddle(monitor, width, chord_distance, half_angle, rot) ==
    IF rot
    THEN PlacedMonitor(monitor, rotate(Point(-RDiv(width, 2), chord_distance), -half_angle),
                                rotate(Point(RDiv(width, 2), chord_distance), -half_angle))
    ELSE PlacedMonitor(monitor, Point(-RDiv(width, 2), chord_distance),
                                Point(RDiv(width, 2), chord_distance))

\* a variant of PerpendicularEnd that turns by half_angle only
PerpendicularEndHalf(polar, width, sign) ==
    from_polar_coord(polar[1],
        polar[2] + sign * asin(RDiv(width * AngScale, 2 * polar[1])))

\* the outer end of a perpendicular monitor: polar is its inner end, sign is 1 on the left
PerpendicularEnd(polar, width, sign) ==
    from_polar_coord(polar[1],
        polar[2] + sign * 2 * asin(RDiv(width * AngScale, 2 * polar[1])))

\* the outer end of a smooth monitor: sign is 1 on the left
SmoothEnd(inner_end, width, adjacent_monitor_phase, curvature_diff, sign) ==
    add(inner_end,
        from_polar_coord(width, adjacent_monitor_phase + curvature_diff + sign * HalfPi))

PlaceLeft(adjacent_monitor, monitor, md) ==
    PlacedMonitor(monitor,
        IF md = "perpendicular"
        THEN PerpendicularEnd(to_polar_coord(adjacent_monitor.left_end),
                              chord_width(monitor), 1)
        ELSE SmoothEnd(adjacent_monitor.left_end, chord_width(monitor),
                       phase(midpoint(adjacent_monitor)),
                       arc_angle(adjacent_monitor, <<0, 1>>) - arc_angle(monitor, <<1, 1>>),
                       1),
        adjacent_monitor.left_end)

PlaceRight(adjacent_monitor, monitor, md) ==
    PlacedMonitor(monitor,
        adjacent_monitor.right_end,
        IF md = "perpendicular"
        THEN PerpendicularEnd(to_polar_coord(adjacent_monitor.right_end),
                              chord_width(monitor), 0 - 1)
        ELSE SmoothEnd(adjacent_monitor.right_end, chord_width(monitor),
                       phase(midpoint(adjacent_monitor)),
                       arc_angle(adjacent_monitor, <<1, 1>>) - arc_angle(monitor, <<0, 1>>),
                       0 - 1))

\* a variant of add_monitor that puts a left monitor at the end of the list
add_monitor_at_end(ms, vd, monitor, side, md, rot) ==
    IF side = "middle"
    THEN <<PlaceMiddle(monitor, chord_width(monitor), vd - depth(monitor),
                       atan2(chord_width(monitor), 2 * vd), rot)>>
    ELSE IF side = "left"
    THEN Append(ms, PlaceLeft(ms[1], monitor, md))
    ELSE Append(ms, PlaceRight(ms[Len(ms)], monitor, md))

\* self.monitors after _add_monitor(monitor, side, mode, rotate)
add_monitor(ms, vd, monitor, side, md, rot) ==
    IF side = "middle"
    THEN <<PlaceMiddle(monitor, chord_width(monitor), vd - depth(monitor),
                       atan2(chord_width(monitor), 2 * vd), rot)>>
    ELSE IF side = "left"
    THEN <<PlaceLeft(ms[1], monitor, md)>> \o ms
    ELSE Append(ms, PlaceRight(ms[Len(ms)], monitor, md))

\* a variant of DeletePlaceholder that deletes nothing
KeepPlaceholder(ms, num_monitors, md) == ms

\* a variant of DeletePlaceholder that deletes the monitor left of the placeholder
DeleteLeftOfPlaceholder(ms, num_monitors, md) ==
    IF num_monitors % 2 = 0 /\ md = "smooth"
    THEN [k \in 1..(Len(ms) - 1) |->
            IF k < num_monitors \div 2 THEN ms[k] ELSE ms[k + 1]]
    ELSE ms

\* del self.monitors[num_monitors // 2], when the setup holds the placeholder
DeletePlaceholder(ms, num_monitors, md) ==
    IF num_monitors % 2 = 0 /\ md = "smooth"
    THEN [k \in 1..(Len(ms) - 1) |->
            IF k <= num_monitors \div 2 THEN ms[k] ELSE ms[k + 1]]
    ELSE ms

Call(ref, side, rot) == [monitor |-> ref, side |-> side, rotate |-> rot]

\* where the two placement loops of Setup.__init__ go on
AfterPlacing(l, r) ==
    IF l # <<>> THEN "left" ELSE IF r # <<>> THEN "right" ELSE "finish"


\* ------------------------------------------------------------ Setup, as a function

\* self.monitors and the exception raised so far, while Setup.__init__ runs
Placing(ms, e) == [monitors |-> ms, exc |-> e]

\* one call of _add_monitor on the left or on the right
PlaceOne(res, vd, monitor, side, md) ==
    IF add_monitor_raises(res.monitors, monitor, side, md) # "none"
    THEN Placing(res.monitors, add_monitor_raises(res.monitors, monitor, side, md))
    ELSE Placing(add_monitor(res.monitors, vd, monitor, side, md, FALSE), "none")

\* one of the two loops of Setup.__init__ over the monitors list[ref], ref in todo
RECURSIVE PlaceAll(_, _, _, _, _, _)
PlaceAll(res, vd, list, todo, side, md) ==
    IF res.exc # "none" \/ todo = <<>> THEN res
    ELSE PlaceAll(PlaceOne(res, vd, list[Head(todo) + 1], side, md), vd, list,
                  Tail(todo), side, md)

\* the first placement of Setup.__init__
PlaceFirst(vd, list, ref, md) ==
    IF ref # PlaceholderRef /\ ref >= Len(list) THEN Placing(<<>>, "IndexError")
    ELSE Placing(add_monitor(<<>>, vd, IF ref = PlaceholderRef THEN Placeholder
                                       ELSE list[ref + 1],
                             "middle", md, MiddleRotate(Len(list), md)), "none")

Finished(res, num_monitors, md) ==
    IF res.exc # "none" THEN res
    ELSE Placing(DeletePlaceholder(res.monitors, num_monitors, md), "none")

\* Setup(monitors, viewing_distance, mode) with viewing_distance in centimetres: the
\* placed monitors, or the exception the constructor raises
Setup(list, distance, md) ==
    IF Setup_raises(md, "cm") # "none" THEN Placing(<<>>, Setup_raises(md, "cm"))
    ELSE Finished(
            PlaceAll(PlaceAll(PlaceFirst(distance * CM_CONVERSION["cm"], list,
                                         MiddleRef(Len(list), md), md),
                              distance * CM_CONVERSION["cm"], list,
                              reversed(LeftSlice(Len(list), md)), "left", md),
                     distance * CM_CONVERSION["cm"], list,
                     RightSlice(Len(list), md), "right", md),
            Len(list), md)

\* ------------------------------------------------------------ app.py

MonitorData(diagonal_length, radius, aspect_h, aspect_v) ==
    [diagonal_length |-> diagonal_length, radius |-> radius,
     aspect_h |-> aspect_h, aspect_v |-> aspect_v]

default_monitor == MonitorData(24, inf, 16, 9)

\* the Monitor create_setup makes of one MonitorData: inches and millimetres
MonitorFromData(monitor) ==
    Monitor(monitor.diagonal_length, <<monitor.aspect_h, monitor.aspect_v>>,
            monitor.radius, "in", "mm")

create_setup(viewing_distance_cm, alignment, monitor_data) ==
    Setup([k \in 1..Len(monitor_data) |-> MonitorFromData(monitor_data[k])],
          viewing_distance_cm, alignment)

\* the widgets create_setup_ui makes; curved stands for "0 in curved.active"
default_widgets ==
    [num_monitors     |-> 2,
     labels           |-> 2,
     monitor_id       |-> 0,
     viewing_distance |-> 60,
     alignment        |-> 0,
     monitor_size     |-> 24,
     aspect_h         |-> 16,
     aspect_v         |-> 9,
     curved           |-> FALSE,
     radius           |-> 1500,
     radius_disabled  |-> TRUE]

\* what create_column() holds: line is the number of monitors of the Setup whose
\* segments line.data_source shows, exc the exception that ended the callbacks of the
\* last event, rebuilt the pairs <<len(setup.monitors), num_monitors.value>> of the
\* Setups that create_setup returned during the last event
default_column ==
    [widgets      |-> default_widgets,
     monitor_data |-> <<default_monitor, default_monitor>>,
     line         |-> 2,
     exc          |-> "none",
     rebuilt      |-> {}]

\* an exception leaves every callback it passes through
Raised(c, e) == [c EXCEPT !.exc = e]

\* line.data_source.data = vars(setup.get_line_segments()), if the Setup was built
Plotted(c, built) ==
    IF built.exc # "none" THEN Raised(c, built.exc)
    ELSE [c EXCEPT !.line = Len(built.monitors),
                   !.rebuilt = @ \cup {<<Len(built.monitors), c.widgets.num_monitors>>}]

\* alignment = "perpendicular" if widgets.alignment.active == 0 else "smooth"
AlignmentOf(c) == IF c.widgets.alignment = 0 THEN "perpendicular" ELSE "smooth"

\* setup = create_setup(...) and the assignment to line.data_source.data
Rebuild(c) ==
    Plotted(c, create_setup(c.widgets.viewing_distance, AlignmentOf(c), c.monitor_data))

changed_monitor(c) ==
    MonitorData(c.widgets.monitor_size,
                IF c.widgets.curved THEN c.widgets.radius ELSE inf,
                c.widgets.aspect_h, c.widgets.aspect_v)

onchange_setting(c) ==
    IF c.widgets.monitor_id >= Len(c.monitor_data) THEN Raised(c, "IndexError")
    ELSE Rebuild([c EXCEPT !.monitor_data[c.widgets.monitor_id + 1] = changed_monitor(c)])

\* widget.value = v (or widget.active = v) of a widget that onchange_setting listens to:
\* the callback runs at once if the value changes, and not after an exception
SetSetting(c, widget, v) ==
    IF c.exc # "none" \/ c.widgets[widget] = v THEN c
    ELSE onchange_setting([c EXCEPT !.widgets[widget] = v])

enable_radius_slider(c) == [c EXCEPT !.widgets.radius_disabled = ~c.widgets.curved]

\* curved.active = ..., which enable_radius_slider hears first
SetCurved(c, v) ==
    IF c.exc # "none" \/ c.widgets.curved = v THEN c
    ELSE onchange_setting(enable_radius_slider([c EXCEPT !.widgets.curved = v]))

\* widgets.radius.disabled = v
SetDisabled(c, v) == IF c.exc # "none" THEN c ELSE [c EXCEPT !.widgets.radius_disabled = v]

\* the branch on monitor.radius of onchange_monitor_id
ShowRadius(c, monitor) ==
    IF monitor.radius = inf THEN SetDisabled(SetCurved(c, FALSE), TRUE)
    ELSE SetSetting(SetDisabled(SetCurved(c, TRUE), FALSE), "radius", monitor.radius)

\* onchange_monitor_id from "widgets.monitor_size.value = ..." on
ShowMonitor(c, monitor) ==
    ShowRadius(SetSetting(SetSetting(SetSetting(c, "monitor_size", monitor.diagonal_length),
                                     "aspect_h", monitor.aspect_h),
                          "aspect_v", monitor.aspect_v),
               monitor)

onchange_monitor_id(c, new) ==
    IF new >= Len(c.monitor_data) THEN Raised(c, "IndexError")
    ELSE ShowMonitor(c, c.monitor_data[new + 1])

\* id_radio.active = v, which onchange_monitor_id hears
SetActive(c, v) ==
    IF c.exc # "none" \/ c.widgets.monitor_id = v THEN c
    ELSE onchange_monitor_id([c EXCEPT !.widgets.monitor_id = v], v)

update_id_radio(c, new) ==
    IF c.widgets.monitor_id <= new - 1
    THEN [c EXCEPT !.widgets.labels = new]
    ELSE SetActive([c EXCEPT !.widgets.labels = new], new - 1)

\* the appends or pops of onchange_monitor_num
Resized(c, old, new) ==
    IF new > old
    THEN [c EXCEPT !.monitor_data = @ \o [k \in 1..(new - old) |-> default_monitor]]
    ELSE IF old - new > Len(c.monitor_data) THEN Raised(c, "IndexError")
    ELSE [c EXCEPT !.monitor_data = SubSeq(@, 1, Len(@) - (old - new))]

RebuildUnlessRaised(c) == IF c.exc # "none" THEN c ELSE Rebuild(c)

onchange_monitor_num(c, old, new) ==
    IF c.exc # "none" THEN c ELSE RebuildUnlessRaised(Resized(c, old, new))

\* the column as an event of the user finds it
Heard(c) == [c EXCEPT !.exc = "none", !.rebuilt = {}]
\* ------------------------------------------------------------ Setup: metrics

\* CM_CONVERSION[units] of a unit that is no key of the table
UnitLookupRaises(units) == IF units \notin DOMAIN CM_CONVERSION THEN "KeyError" ELSE "none"

\* a variant of screen_width that multiplies by the factor of the unit
screen_width_times(ms, units) ==
    Frac(Sum([k \in 1..Len(ms) |-> arc_width(ms[k])], Len(ms)) * CM_CONVERSION[units],
         LenScale * LenScale)

screen_width_raises(ms, units) == UnitLookupRaises(units)

screen_width(ms, units) ==
    Frac(Sum([k \in 1..Len(ms) |-> arc_width(ms[k])], Len(ms)), CM_CONVERSION[units])

RECURSIVE MaxOf(_, _)
MaxOf(seq, k) ==
    IF k = 1 THEN seq[1]
    ELSE IF seq[k] > MaxOf(seq, k - 1) THEN seq[k] ELSE MaxOf(seq, k - 1)

max_height_raises(ms, units) ==
    IF Len(ms) = 0 THEN "ValueError: max() arg is an empty sequence"
    ELSE UnitLookupRaises(units)

max_height(ms, units) ==
    Frac(MaxOf([k \in 1..Len(ms) |-> height(ms[k])], Len(ms)), CM_CONVERSION[units])

Setup_display_area_raises(ms, units) == UnitLookupRaises(units)

\* the area in square centimetres over the squared factor of the unit
Setup_display_area(ms, units) ==
    Frac(Sum([k \in 1..Len(ms) |-> display_area(ms[k])], Len(ms)) * LenScale * LenScale,
         CM_CONVERSION[units] * CM_CONVERSION[units])

\* ------------------------------------------------------------ Setup: sampling

\* position = i / (point_per_monitor - 1)
PositionRaises(point_per_monitor) ==
    IF point_per_monitor - 1 = 0 THEN "ZeroDivisionError" ELSE "none"

get_viewing_angles_raises(ms, point_per_monitor) ==
    IF Len(ms) = 0 \/ point_per_monitor <= 0 THEN "none"
    ELSE IF PositionRaises(point_per_monitor) # "none" THEN PositionRaises(point_per_monitor)
    ELSE IF \E i \in 0..(point_per_monitor - 1) :
                viewing_angle_raises(ms[1], <<i, point_per_monitor - 1>>, "degrees") # "none"
    THEN "ValueError: position"
    ELSE "none"

\* a variant of SamplePosition that divides by the number of samples
SamplePositionOpen(i, point_per_monitor) == <<i, point_per_monitor>>

\* the position of the i-th of point_per_monitor samples
SamplePosition(i, point_per_monitor) == <<i, point_per_monitor - 1>>

\* what one round of the inner loop appends; position is kept beside it
SampleRecord(monitor_num, position, point_angle, abs_angle) ==
    [monitor_num   |-> monitor_num,
     position      |-> position,
     x             |-> point_angle[1].x,
     y             |-> point_angle[1].y,
     viewing_angle |-> IF abs_angle THEN Abs(point_angle[2]) ELSE point_angle[2]]

Sample(monitor_num, monitor, position, abs_angle) ==
    SampleRecord(monitor_num, position, viewing_angle(monitor, position, "degrees"), abs_angle)

\* the samples in the order of the two loops
Samples(ms, point_per_monitor, abs_angle) ==
    [k \in 1..(Len(ms) * point_per_monitor) |->
        Sample((k - 1) \div point_per_monitor, ms[(k - 1) \div point_per_monitor + 1],
               SamplePosition((k - 1) % point_per_monitor, point_per_monitor), abs_angle)]

PointAngleData(samples) ==
    [kind          |-> "PointAngleData",
     monitor_num   |-> [k \in DOMAIN samples |-> samples[k].monitor_num],
     x             |-> [k \in DOMAIN samples |-> samples[k].x],
     y             |-> [k \in DOMAIN samples |-> samples[k].y],
     viewing_angle |-> [k \in DOMAIN samples |-> samples[k].viewing_angle],
     position      |-> [k \in DOMAIN samples |-> samples[k].position]]

get_viewing_angles(ms, point_per_monitor, abs_angle) ==
    PointAngleData(Samples(ms, point_per_monitor, abs_angle))

get_line_segments_raises(ms, segment_per_monitor) ==
    IF get_viewing_angles_raises(ms, segment_per_monitor + 1) # "none"
    THEN get_viewing_angles_raises(ms, segment_per_monitor + 1)
    ELSE IF Len(ms) * (segment_per_monitor + 1) <= 0 THEN "IndexError"
    ELSE "none"

\* a variant of segment_joins that joins every two consecutive samples
joins_always(monitor, prev_monitor_num) == TRUE

\* "if monitor == prev_monitor_num"
segment_joins(monitor, prev_monitor_num) == monitor = prev_monitor_num

\* a variant of Segment that carries the sum of the two angles, not their mean
SegmentOfSum(data, prev, j) ==
    [monitor_num   |-> data.monitor_num[j],
     x             |-> <<data.x[prev], data.x[j]>>,
     y             |-> <<data.y[prev], data.y[j]>>,
     viewing_angle |-> Frac(data.viewing_angle[prev] + data.viewing_angle[j], 1),
     joined        |-> <<data.monitor_num[prev], data.monitor_num[j]>>]

\* the segment from sample prev to sample j; joined keeps the monitors of the two samples
Segment(data, prev, j) ==
    [monitor_num   |-> data.monitor_num[j],
     x             |-> <<data.x[prev], data.x[j]>>,
     y             |-> <<data.y[prev], data.y[j]>>,
     viewing_angle |-> Frac(data.viewing_angle[prev] + data.viewing_angle[j], 2),
     joined        |-> <<data.monitor_num[prev], data.monitor_num[j]>>]

\* the loop over data[1:], prev being the sample before j
RECURSIVE FoldSegments(_, _, _, _)
FoldSegments(data, prev, j, acc) ==
    IF j > Len(data.monitor_num) THEN acc
    ELSE FoldSegments(data, j, j + 1,
             IF segment_joins(data.monitor_num[j], data.monitor_num[prev])
             THEN Append(acc, Segment(data, prev, j)) ELSE acc)

LineAngleData(segments) ==
    [kind          |-> "LineAngleData",
     monitor_num   |-> [k \in DOMAIN segments |-> segments[k].monitor_num],
     x             |-> [k \in DOMAIN segments |-> segments[k].x],
     y             |-> [k \in DOMAIN segments |-> segments[k].y],
     viewing_angle |-> [k \in DOMAIN segments |-> segments[k].viewing_angle],
     joined        |-> [k \in DOMAIN segments |-> segments[k].joined]]

get_line_segments(ms, segment_per_monitor, abs_angle) ==
    LineAngleData(FoldSegments(get_viewing_angles(ms, segment_per_monitor + 1, abs_angle),
                               1, 2, <<>>))

\* ------------------------------------------------------------ inputs

MonitorArgs ==
    { [diagonal_length |-> 24, aspect_ratio |-> <<16, 9>>, radius |-> inf,
       diagonal_unit |-> "in", radius_unit |-> "mm"],
      [diagonal_length |-> 86, aspect_ratio |-> <<21, 9>>, radius |-> 1500,
       diagonal_unit |-> "cm", radius_unit |-> "mm"],
      [diagonal_length |-> 24, aspect_ratio |-> <<16, 9>>, radius |-> inf,
       diagonal_unit |-> "xyz", radius_unit |-> "mm"],
      [diagonal_length |-> 86, aspect_ratio |-> <<21, 9>>, radius |-> 1500,
       diagonal_unit |-> "cm", radius_unit |-> "px"] }

DistanceArgs == { <<60, "cm">>, <<250, "mm">>, <<60, "px">> }

ModeArgs == { "perpendicular", "smooth", "circular" }

UnitArgs == { "mm", "cm", "m", "in", "ft", "xyz" }

PositionArgs == { <<0 - 1, 2>>, <<0, 1>>, <<1, 2>>, <<1, 1>>, <<3, 2>> }

AngleUnitArgs == { "degrees", "radians", "gradians" }

NoRet == [kind |-> "None"]

NoCall == [op |-> "none"]

\* ------------------------------------------------------------ actions

Init ==
    /\ input = <<>>
    /\ pc = "none"
    /\ viewing_distance = 0
    /\ mode = "none"
    /\ monitors = <<>>
    /\ left_monitors = <<>>
    /\ right_monitors = <<>>
    /\ setup = "None"
    /\ calls = <<>>
    /\ call = NoCall
    /\ ret = NoRet
    /\ exc = "none"
    /\ column = default_column

\* the caller builds a Monitor and, if that succeeds, appends it to its list
MonitorInit(a) ==
    /\ pc = "none"
    /\ Len(input) < MaxMonitors
    /\ exc' = Monitor_raises(a.diagonal_unit, a.radius_unit)
    /\ input' = IF Monitor_raises(a.diagonal_unit, a.radius_unit) = "none"
                THEN Append(input, Monitor(a.diagonal_length, a.aspect_ratio, a.radius,
                                           a.diagonal_unit, a.radius_unit))
                ELSE input
    /\ call' = [op |-> "Monitor", args |-> <<a.diagonal_unit, a.radius_unit>>]
    /\ ret' = NoRet
    /\ UNCHANGED <<pc, viewing_distance, mode, monitors, left_monitors, right_monitors,
                   setup, calls>>
    /\ UNCHANGED column

\* Setup.__init__ up to and including the placement of the middle monitor
SetupInit(dist, md) ==
    /\ pc = "none"
    /\ call' = [op |-> "Setup", args |-> <<dist[2], md>>]
    /\ ret' = NoRet
    /\ UNCHANGED <<input, setup>>
    /\ IF Setup_raises(md, dist[2]) # "none"
       THEN /\ exc' = Setup_raises(md, dist[2])
            /\ UNCHANGED <<pc, viewing_distance, mode, monitors, left_monitors,
                           right_monitors, calls>>
       ELSE /\ viewing_distance' = dist[1] * CM_CONVERSION[dist[2]]
            /\ mode' = md
            /\ IF MiddleRef(Len(input), md) # PlaceholderRef
                    /\ MiddleRef(Len(input), md) >= Len(input)
               THEN /\ exc' = "IndexError"
                    /\ pc' = "failed"
                    /\ monitors' = <<>>
                    /\ UNCHANGED <<left_monitors, right_monitors, calls>>
               ELSE /\ exc' = "none"
                    /\ monitors' = add_monitor(<<>>, dist[1] * CM_CONVERSION[dist[2]],
                                               Deref(MiddleRef(Len(input), md)), "middle", md,
                                               MiddleRotate(Len(input), md))
                    /\ calls' = <<Call(MiddleRef(Len(input), md), "middle",
                                       MiddleRotate(Len(input), md))>>
                    /\ left_monitors' = reversed(LeftSlice(Len(input), md))
                    /\ right_monitors' = RightSlice(Len(input), md)
                    /\ pc' = AfterPlacing(LeftSlice(Len(input), md), RightSlice(Len(input), md))
    /\ UNCHANGED column

\* one round of "for monitor in reversed(left_monitors)"
AddLeft ==
    /\ pc = "left"
    /\ exc' = add_monitor_raises(monitors, Deref(Head(left_monitors)), "left", mode)
    /\ IF exc' # "none"
       THEN /\ pc' = "failed"
            /\ UNCHANGED <<monitors, left_monitors, calls>>
       ELSE /\ monitors' = add_monitor(monitors, viewing_distance,
                                       Deref(Head(left_monitors)), "left", mode, FALSE)
            /\ calls' = Append(calls, Call(Head(left_monitors), "left", FALSE))
            /\ left_monitors' = Tail(left_monitors)
            /\ pc' = AfterPlacing(left_monitors', right_monitors)
    /\ UNCHANGED <<input, viewing_distance, mode, right_monitors, setup, call, ret>>
    /\ UNCHANGED column

\* one round of "for monitor in right_monitors"
AddRight ==
    /\ pc = "right"
    /\ exc' = add_monitor_raises(monitors, Deref(Head(right_monitors)), "right", mode)
    /\ IF exc' # "none"
       THEN /\ pc' = "failed"
            /\ UNCHANGED <<monitors, right_monitors, calls>>
       ELSE /\ monitors' = add_monitor(monitors, viewing_distance,
                                       Deref(Head(right_monitors)), "right", mode, FALSE)
            /\ calls' = Append(calls, Call(Head(right_monitors), "right", FALSE))
            /\ right_monitors' = Tail(right_monitors)
            /\ pc' = AfterPlacing(left_monitors, right_monitors')
    /\ UNCHANGED <<input, viewing_distance, mode, left_monitors, setup, call, ret>>
    /\ UNCHANGED column

\* the end of Setup.__init__: the placeholder goes, the call is over and the caller
\* holds the Setup
Finish ==
    /\ pc = "finish"
    /\ monitors' = DeletePlaceholder(monitors, Len(input), mode)
    /\ setup' = "Setup"
    /\ pc' = "built"
    /\ call' = NoCall
    /\ UNCHANGED <<input, viewing_distance, mode, left_monitors, right_monitors,
                   calls, ret, exc>>
    /\ UNCHANGED column

\* a call on the built Setup, by a caller that holds no earlier result
Called(op, args, raises) ==
    /\ pc = "built"
    /\ call = NoCall
    /\ call' = [op |-> op, args |-> args]
    /\ exc' = raises
    /\ UNCHANGED <<input, pc, viewing_distance, mode, monitors, left_monitors,
                   right_monitors, setup, calls>>
    /\ UNCHANGED column

Float(value) == [kind |-> "float", value |-> value]

ScreenWidth(units) ==
    /\ Called("screen_width", <<units>>, screen_width_raises(monitors, units))
    /\ ret' = IF exc' = "none" THEN Float(screen_width(monitors, units)) ELSE NoRet

MaxHeight(units) ==
    /\ Called("max_height", <<units>>, max_height_raises(monitors, units))
    /\ ret' = IF exc' = "none" THEN Float(max_height(monitors, units)) ELSE NoRet

DisplayArea(units) ==
    /\ Called("display_area", <<units>>, Setup_display_area_raises(monitors, units))
    /\ ret' = IF exc' = "none" THEN Float(Setup_display_area(monitors, units)) ELSE NoRet

GetViewingAngles(point_per_monitor, abs_angle) ==
    /\ Called("get_viewing_angles", <<point_per_monitor, abs_angle>>,
              get_viewing_angles_raises(monitors, point_per_monitor))
    /\ ret' = IF exc' = "none"
              THEN get_viewing_angles(monitors, point_per_monitor, abs_angle) ELSE NoRet

GetLineSegments(segment_per_monitor, abs_angle) ==
    /\ Called("get_line_segments", <<segment_per_monitor, abs_angle>>,
              get_line_segments_raises(monitors, segment_per_monitor))
    /\ ret' = IF exc' = "none"
              THEN get_line_segments(monitors, segment_per_monitor, abs_angle) ELSE NoRet

ArcAngle(i, position) ==
    /\ Called("arc_angle", <<i, position>>, arc_angle_raises(monitors[i], position))
    /\ ret' = IF exc' = "none"
              THEN Float(arc_angle(monitors[i], position)) ELSE NoRet

GetCoordinate(i, position) ==
    /\ Called("get_coordinate", <<i, position>>,
              get_coordinate_raises(monitors[i], position))
    /\ ret' = IF exc' = "none"
              THEN [kind |-> "Point", point |-> get_coordinate(monitors[i], position)]
              ELSE NoRet

ViewingAngle(i, position, angle_unit) ==
    /\ Called("viewing_angle", <<i, position, angle_unit>>,
              viewing_angle_raises(monitors[i], position, angle_unit))
    /\ ret' = IF exc' = "none"
              THEN [kind |-> "tuple",
                    point_angle |-> viewing_angle(monitors[i], position, angle_unit)]
              ELSE NoRet

\* the caller lets go of what the last call returned or raised
Discard ==
    /\ pc = "built"
    /\ call # NoCall
    /\ call' = NoCall
    /\ ret' = NoRet
    /\ exc' = "none"
    /\ UNCHANGED <<input, pc, viewing_distance, mode, monitors, left_monitors,
                   right_monitors, setup, calls>>
    /\ UNCHANGED column

Next ==
    \/ \E a \in MonitorArgs : MonitorInit(a)
    \/ \E dist \in DistanceArgs, md \in ModeArgs : SetupInit(dist, md)
    \/ AddLeft
    \/ AddRight
    \/ Finish
    \/ \E units \in UnitArgs : ScreenWidth(units)
    \/ \E units \in UnitArgs : MaxHeight(units)
    \/ \E units \in UnitArgs : DisplayArea(units)
    \/ \E n \in 1..MaxSamples, abs_angle \in BOOLEAN : GetViewingAngles(n, abs_angle)
    \/ \E n \in 0..(MaxSamples - 1), abs_angle \in BOOLEAN : GetLineSegments(n, abs_angle)
    \/ \E i \in 1..Len(monitors), position \in PositionArgs : ArcAngle(i, position)
    \/ \E i \in 1..Len(monitors), position \in PositionArgs : GetCoordinate(i, position)
    \/ \E i \in 1..Len(monitors), position \in PositionArgs, angle_unit \in AngleUnitArgs :
            ViewingAngle(i, position, angle_unit)
    \/ Discard

Spec == Init /\ [][Next]_vars

\* ------------------------------------------------------------ events of one UI column

\* a widget that onchange_setting listens to and a value the user gives it
SettingArgs ==
    { <<"viewing_distance", 60>>, <<"viewing_distance", 150>>,
      <<"alignment", 0>>, <<"alignment", 1>>,
      <<"monitor_size", 24>>, <<"monitor_size", 60>>,
      <<"aspect_h", 16>>, <<"aspect_h", 21>>,
      <<"aspect_v", 9>>, <<"aspect_v", 10>>,
      <<"radius", 1500>>, <<"radius", 1000>> }

\* the user moves the "Number of monitors" slider: update_id_radio, then
\* onchange_monitor_num
SlideNumMonitors(new) ==
    /\ new # column.widgets.num_monitors
    /\ Len(column.monitor_data) + new - column.widgets.num_monitors <= MaxData
    /\ column' = onchange_monitor_num(
                     update_id_radio(Heard([column EXCEPT !.widgets.num_monitors = new]), new),
                     column.widgets.num_monitors, new)
    /\ UNCHANGED engine

\* the user clicks another button of the monitor-id group
SelectMonitorId(new) ==
    /\ new < column.widgets.labels
    /\ new # column.widgets.monitor_id
    /\ column' = SetActive(Heard(column), new)
    /\ UNCHANGED engine

\* the user changes the viewing distance, the alignment, the size, the aspect ratio or
\* the radius
ChangeSetting(widget, new) ==
    /\ new # column.widgets[widget]
    /\ column' = SetSetting(Heard(column), widget, new)
    /\ UNCHANGED engine

\* the user clicks "Curved"
ToggleCurved ==
    /\ column' = SetCurved(Heard(column), ~column.widgets.curved)
    /\ UNCHANGED engine

ColumnNext ==
    \/ \E new \in 1..MaxNumMonitors : SlideNumMonitors(new)
    \/ \E new \in 0..(MaxNumMonitors - 1) : SelectMonitorId(new)
    \/ \E setting \in SettingArgs : ChangeSetting(setting[1], setting[2])
    \/ ToggleCurved

ColumnSpec == Init /\ [][ColumnNext]_vars

\* ------------------------------------------------------------ properties

\* the Monitor a PlacedMonitor was made of
MonitorOf(pm) ==
    [diagonal_length |-> pm.diagonal_length,
     radius          |-> pm.radius,
     aspect_ratio    |-> pm.aspect_ratio]

\* C1: whenever Setup construction completes, setup.monitors holds as many placed
\* monitors as the input list holds monitors, the k-th made of the k-th input monitor,
\* and the zero-width placeholder of the even smooth case is none of them.
C1_CountPreserved ==
    pc = "built" =>
        /\ Len(monitors) = Len(input)
        /\ \A k \in 1..Len(monitors) :
              /\ MonitorOf(monitors[k]) = input[k]
              /\ monitors[k].diagonal_length # 0

\* an even smooth setup is built
C1_Witness == pc = "built" /\ mode = "smooth" /\ Len(input) = 2 /\ Len(monitors) = 2

\* C2: in every built Setup the right end of each placed monitor is the left end of the
\* next one, in both modes, also after the placeholder has gone from the middle.
C2_Contiguous ==
    pc = "built" =>
        \A i \in 1..(Len(monitors) - 1) : monitors[i].right_end = monitors[i + 1].left_end

\* an even smooth setup of four monitors is built: the placeholder stood between the
\* second and the third
C2_Witness ==
    /\ pc = "built" /\ mode = "smooth" /\ Len(input) = 4
    /\ monitors[2].right_end = monitors[3].left_end

\* the index, among the samples of get_viewing_angles(s + 1), of the sample the k-th of
\* the s segments per monitor starts at
SegmentStart(k, s) == ((k - 1) \div s) * (s + 1) + ((k - 1) % s) + 1

\* C3: every segment get_line_segments returns joins two consecutive samples of one
\* monitor and carries the index of that monitor; there are segment_per_monitor segments
\* for each monitor, so none joins the last sample of a monitor to the first of the next.
C3_SegmentsWithinMonitor ==
    (call.op = "get_line_segments" /\ exc = "none") =>
        LET data == get_viewing_angles(monitors, call.args[1] + 1, call.args[2])
        IN  /\ Len(ret.monitor_num) = Len(monitors) * call.args[1]
            /\ \A k \in 1..Len(ret.monitor_num) :
                  /\ ret.joined[k][1] = ret.joined[k][2]
                  /\ ret.monitor_num[k] = ret.joined[k][1]
                  /\ ret.monitor_num[k] = (k - 1) \div call.args[1]
                  /\ data.monitor_num[SegmentStart(k, call.args[1])] = ret.monitor_num[k]
                  /\ data.monitor_num[SegmentStart(k, call.args[1]) + 1] = ret.monitor_num[k]
                  /\ ret.x[k] = <<data.x[SegmentStart(k, call.args[1])],
                                  data.x[SegmentStart(k, call.args[1]) + 1]>>
                  /\ ret.y[k] = <<data.y[SegmentStart(k, call.args[1])],
                                  data.y[SegmentStart(k, call.args[1]) + 1]>>

\* segments of a setup of several monitors have been returned
C3_Witness ==
    /\ call.op = "get_line_segments" /\ exc = "none"
    /\ Len(monitors) >= 2 /\ call.args[1] = 2
    /\ Len(ret.monitor_num) = 2 * Len(monitors)

\* the chord width of the monitor the next round places, and the distance of the end it
\* is pinned to
NextWidth ==
    chord_width(Deref(Head(IF pc = "left" THEN left_monitors ELSE right_monitors)))
NextEnd == IF pc = "left" THEN monitors[1].left_end ELSE monitors[Len(monitors)].right_end

\* C4: when in perpendicular mode the next left or right monitor has
\* (chord_width / 2) / end_dist above 1, the construction fails with a domain error,
\* places nothing more, and the caller never gets a Setup; a failed construction stays
\* failed.
C4_DomainErrorAtomic ==
    /\ [][(pc \in {"left", "right"} /\ mode = "perpendicular"
              /\ NextWidth > 2 * hypot(NextEnd.x, NextEnd.y))
            => (/\ pc' = "failed"
                /\ exc' = "ValueError: math domain error"
                /\ monitors' = monitors
                /\ setup' = "None")]_vars
    /\ [][pc = "failed" => (pc' = "failed" /\ setup' = "None")]_vars
    /\ [](pc = "failed" => setup = "None")

\* a perpendicular construction has failed on a domain error after it placed a monitor
C4_Witness ==
    /\ pc = "failed" /\ exc = "ValueError: math domain error"
    /\ mode = "perpendicular" /\ Len(monitors) >= 1 /\ setup = "None"

\* the last call was handed a unit token that is no key of the table
UnknownUnit ==
    \/ call.op = "Monitor"
         /\ (call.args[1] \notin DOMAIN CM_CONVERSION \/ call.args[2] \notin DOMAIN CM_CONVERSION)
    \/ call.op \in {"Setup", "screen_width", "max_height", "display_area"}
         /\ call.args[1] \notin DOMAIN CM_CONVERSION

\* C5: every operation that takes a unit token (Monitor, Setup, screen_width, max_height,
\* display_area) rejects a token outside the table with the validation error and yields
\* no result.
C5_UnitRejected == UnknownUnit => (exc = "ValueError: units" /\ ret.kind = "None")

\* C6: arc_angle, get_coordinate and viewing_angle (with a known angle unit) fail with
\* the out-of-range validation error and return nothing when the position is below 0 or
\* above 1, and return a value for every other position, 0 and 1 included.
C6_PositionRange ==
    (/\ call.op \in {"arc_angle", "get_coordinate", "viewing_angle"}
     /\ call.op = "viewing_angle" => call.args[3] \in {"degrees", "radians"})
    => IF call.args[2][1] < 0 \/ call.args[2][1] > call.args[2][2]
       THEN exc = "ValueError: position" /\ ret.kind = "None"
       ELSE exc = "none" /\ ret.kind # "None"

\* get_coordinate(3/2) on a curved monitor has failed
C6_Witness ==
    /\ call.op = "get_coordinate" /\ call.args[2] = <<3, 2>>
    /\ monitors[call.args[1]].radius # inf
    /\ exc = "ValueError: position" /\ ret.kind = "None"

\* get_viewing_angles has returned four sequences of n * point_per_monitor elements,
\* ordered by monitor and then by position, the positions of a monitor being
\* i / (point_per_monitor - 1): evenly spaced from 0 to 1
SampledEvenly ==
    /\ exc = "none"
    /\ ret.kind = "PointAngleData"
    /\ \A f \in {"monitor_num", "x", "y", "viewing_angle"} :
          Len(ret[f]) = Len(monitors) * call.args[1]
    /\ \A k \in 1..(Len(monitors) * call.args[1]) :
          /\ ret.monitor_num[k] = (k - 1) \div call.args[1]
          /\ ret.position[k][1] * (call.args[1] - 1)
                = ((k - 1) % call.args[1]) * ret.position[k][2]
          /\ Point(ret.x[k], ret.y[k])
                = get_coordinate(monitors[(k - 1) \div call.args[1] + 1], ret.position[k])
    /\ \A m \in 1..Len(monitors) :
          /\ ret.position[(m - 1) * call.args[1] + 1][1] = 0
          /\ ret.position[m * call.args[1]][1] = ret.position[m * call.args[1]][2]

\* C7 as stated: for every point_per_monitor >= 1 get_viewing_angles returns the samples.
C7_SamplesFromOne ==
    (call.op = "get_viewing_angles" /\ call.args[1] >= 1) => SampledEvenly

\* C7: for every point_per_monitor >= 2 (and for an empty setup) get_viewing_angles
\* returns four sequences of n * point_per_monitor elements, ordered by monitor and then
\* by position, the positions evenly spaced with the first at 0 and the last at 1; with
\* one point per monitor on a setup that holds a monitor it fails on a division by zero.
C7_SamplesFromTwo ==
    call.op = "get_viewing_angles" =>
        IF call.args[1] >= 2 \/ Len(monitors) = 0
        THEN SampledEvenly
        ELSE exc = "ZeroDivisionError" /\ ret.kind = "None"

\* three samples for each of several monitors have been returned
C7_Witness ==
    /\ call.op = "get_viewing_angles" /\ call.args[1] = 3 /\ exc = "none"
    /\ Len(monitors) >= 2 /\ Len(ret.x) = 3 * Len(monitors)

\* C8: the first monitor placed is input[n // 2], unrotated, for odd n; input[n // 2],
\* rotated, for even n in perpendicular mode; the flat zero-width placeholder, unrotated,
\* for even n in smooth mode, where no input monitor is placed as middle. No other
\* placement is a middle placement or rotates. Until the next monitor is placed or the
\* placeholder deleted, setup.monitors holds that monitor alone, level and centred
\* unless rotated.
C8_MiddleSelection ==
    Len(calls) >= 1 =>
        /\ calls[1].side = "middle"
        /\ \A k \in 2..Len(calls) : calls[k].side # "middle" /\ ~calls[k].rotate
        /\ calls[1].rotate <=> (Len(input) % 2 = 0 /\ mode = "perpendicular")
        /\ calls[1].monitor =
              (IF Len(input) % 2 = 0 /\ mode = "smooth" THEN 0 - 1 ELSE Len(input) \div 2)
        /\ (Len(calls) = 1 /\ pc # "built") =>
              /\ MonitorOf(monitors[1]) =
                    (IF Len(input) % 2 = 0 /\ mode = "smooth"
                     THEN [diagonal_length |-> 0, radius |-> inf, aspect_ratio |-> <<1, 1>>]
                     ELSE input[Len(input) \div 2 + 1])
              /\ IF Len(input) % 2 = 0 /\ mode = "perpendicular"
                 THEN monitors[1].left_end.y # monitors[1].right_end.y
                 ELSE /\ monitors[1].left_end.y = monitors[1].right_end.y
                      /\ monitors[1].left_end.x = -monitors[1].right_end.x

\* the middle of an even perpendicular setup has just been placed, rotated
C8_Witness ==
    /\ Len(calls) = 1 /\ calls[1].rotate /\ Len(input) = 2
    /\ monitors[1].left_end.y # monitors[1].right_end.y

\* C9: for every unit u of the table, screen_width(u) times the centimetre factor of u
\* is screen_width("cm"), and display_area(u) times the squared factor is
\* display_area("cm").
C9_UnitRoundTrip ==
    /\ (call.op = "screen_width" /\ exc = "none") =>
          /\ ret.value = screen_width(monitors, call.args[1])
          /\ FracMul(ret.value, Frac(CM_CONVERSION[call.args[1]], LenScale))
                = screen_width(monitors, "cm")
    /\ (call.op = "display_area" /\ exc = "none") =>
          FracMul(ret.value, Frac(CM_CONVERSION[call.args[1]] * CM_CONVERSION[call.args[1]],
                                  LenScale * LenScale))
             = Setup_display_area(monitors, "cm")

\* the width of a setup of several monitors has been returned in inches
C9_Witness ==
    /\ call.op = "screen_width" /\ call.args = <<"in">> /\ exc = "none"
    /\ Len(monitors) >= 2 /\ ret.value # screen_width(monitors, "cm")

\* C10: the middle monitor is placed first; then the left monitors from input index
\* n // 2 - 1 down to 0, each with its right end at the left end of the leftmost placed
\* monitor; then the right monitors in ascending index, each with its left end at the
\* right end of the rightmost placed monitor; the monitors already placed stay as they
\* are.
C10_PlacementOrder ==
    [][Len(calls') = Len(calls) + 1 =>
          IF Len(calls) = 0
          THEN calls'[1].side = "middle" /\ Len(monitors') = 1
          ELSE IF Len(calls) <= Len(input) \div 2
          THEN /\ calls'[Len(calls')].side = "left"
               /\ calls'[Len(calls')].monitor = Len(input) \div 2 - Len(calls)
               /\ monitors'[1].right_end = monitors[1].left_end
               /\ Tail(monitors') = monitors
          ELSE /\ calls'[Len(calls')].side = "right"
               /\ calls'[Len(calls')].monitor =
                     Len(calls) - (IF calls[1].monitor = 0 - 1 THEN 1 ELSE 0)
               /\ monitors'[Len(monitors')].left_end = monitors[Len(monitors)].right_end
               /\ SubSeq(monitors', 1, Len(monitors)) = monitors]_vars

\* the last of four monitors has been placed, on the right, after both left ones
C10_Witness ==
    /\ pc = "finish" /\ Len(input) = 4
    /\ calls[2].side = "left" /\ calls[3].side = "left"
    /\ calls[Len(calls)].side = "right"

\* two lengths, or two angles, that differ by no more than tol units of the fixed-point
\* grid: the rounding of one placement
Near(a, b, tol) == Abs(a - b) <= tol

\* the distance of a point from the viewer, who sits at the origin
Dist(p) == hypot(p.x, p.y)

\* outer is the end a perpendicular placement gives a monitor of chord width w whose
\* inner end is pinned at inner: at the distance of inner, its phase that of inner plus
\* (sign = 1, left) or minus (sign = -1, right) twice asin((w / 2) / that distance)
OuterOnCircle(inner, outer, w, sign) ==
    /\ Near(Dist(outer), Dist(inner), 2)
    /\ Near(WrapAngle(phase(outer) - phase(inner)
                        - sign * 2 * asin(RDiv(w * AngScale, 2 * Dist(inner)))), 0, 4)

\* the index in setup.monitors of the monitor placed first
MiddleIndex == calls[1].monitor + 1

\* C11: in perpendicular mode every left or right placement puts the outer end of the
\* new monitor at the distance of its pinned inner end, at the phase of that end plus
\* (left) or minus (right) 2 * half_angle; so in a built perpendicular Setup both ends of
\* every monitor are at the distance of the ends of the middle monitor, up to the
\* rounding of the placements in between.
C11_CommonDistance ==
    /\ [][(mode = "perpendicular" /\ Len(calls) >= 1 /\ Len(calls') = Len(calls) + 1) =>
            IF calls'[Len(calls')].side = "left"
            THEN OuterOnCircle(monitors[1].left_end, monitors'[1].left_end,
                               chord_width(monitors'[1]), 1)
            ELSE OuterOnCircle(monitors[Len(monitors)].right_end,
                               monitors'[Len(monitors')].right_end,
                               chord_width(monitors'[Len(monitors')]), 0 - 1)]_vars
    /\ [](pc = "built" /\ mode = "perpendicular" =>
            \A k \in 1..Len(monitors) :
                /\ Near(Dist(monitors[k].left_end), Dist(monitors[MiddleIndex].left_end),
                        2 * (Abs(k - MiddleIndex) + 1))
                /\ Near(Dist(monitors[k].right_end), Dist(monitors[MiddleIndex].left_end),
                        2 * (Abs(k - MiddleIndex) + 1)))

\* a perpendicular setup of four monitors, flat and curved, is built
C11_Witness ==
    /\ pc = "built" /\ mode = "perpendicular" /\ Len(monitors) = 4
    /\ \E k \in 1..4 : monitors[k].radius # inf
    /\ \E k \in 1..4 : monitors[k].radius = inf

\* C12: on a built Setup of n >= 1 monitors, get_line_segments(s, abs_angle) with s >= 1
\* returns n * s segments, s for each monitor in monitor order; the k-th segment of a
\* monitor runs from the k-th to the (k+1)-th sample of that monitor in
\* get_viewing_angles(s + 1, abs_angle), and its angle is the mean of the angles of the
\* two.
C12_SegmentsOfSamples ==
    (call.op = "get_line_segments" /\ call.args[1] >= 1 /\ Len(monitors) >= 1) =>
        LET s    == call.args[1]
            data == get_viewing_angles(monitors, s + 1, call.args[2])
        IN  /\ exc = "none"
            /\ ret.kind = "LineAngleData"
            /\ \A f \in {"monitor_num", "x", "y", "viewing_angle"} :
                  Len(ret[f]) = Len(monitors) * s
            /\ \A m \in 1..Len(monitors), k \in 1..s :
                  /\ ret.monitor_num[(m - 1) * s + k] = m - 1
                  /\ data.monitor_num[(m - 1) * (s + 1) + k] = m - 1
                  /\ data.monitor_num[(m - 1) * (s + 1) + k + 1] = m - 1
                  /\ ret.x[(m - 1) * s + k] = <<data.x[(m - 1) * (s + 1) + k],
                                                data.x[(m - 1) * (s + 1) + k + 1]>>
                  /\ ret.y[(m - 1) * s + k] = <<data.y[(m - 1) * (s + 1) + k],
                                                data.y[(m - 1) * (s + 1) + k + 1]>>
                  /\ 2 * ret.viewing_angle[(m - 1) * s + k][1]
                        = (data.viewing_angle[(m - 1) * (s + 1) + k]
                             + data.viewing_angle[(m - 1) * (s + 1) + k + 1])
                          * ret.viewing_angle[(m - 1) * s + k][2]

\* two segments for each of three monitors have been returned with signed angles, and
\* the first joins two samples of different angles
C12_Witness ==
    /\ call.op = "get_line_segments" /\ call.args = <<2, FALSE>> /\ exc = "none"
    /\ Len(monitors) = 3 /\ Len(ret.viewing_angle) = 6
    /\ ret.x[1][1] # ret.x[1][2]
    /\ ret.viewing_angle[1] # ret.viewing_angle[2]

\* C13: Setup construction places every input monitor exactly once and keeps the input
\* order: in a built Setup the i-th placed monitor has the diagonal_length, aspect_ratio
\* and radius of the i-th input monitor; and no step of a construction, completed or
\* failed, changes the input list.
C13_OrderPreserved ==
    /\ [](pc = "built" =>
            /\ DOMAIN monitors = DOMAIN input
            /\ \A i \in DOMAIN input :
                  /\ monitors[i].diagonal_length = input[i].diagonal_length
                  /\ monitors[i].aspect_ratio = input[i].aspect_ratio
                  /\ monitors[i].radius = input[i].radius
                  /\ Cardinality({k \in DOMAIN calls : calls[k].monitor = i - 1}) = 1)
    /\ [][(pc # "none" \/ pc' # "none" \/ call'.op = "Setup") => input' = input]_vars

\* a perpendicular setup of a curved monitor between two flat ones is built
C13_Witness ==
    /\ pc = "built" /\ mode = "perpendicular" /\ Len(input) = 3
    /\ input[1].radius = inf /\ input[2].radius # inf /\ input[3].radius = inf
    /\ monitors[2].radius = input[2].radius

\* C14: in one UI column, once the callbacks of a widget event have finished,
\* monitor_data is as long as the number-of-monitors slider shows; no callback of the
\* event indexed monitor_data out of its bounds; and every Setup that a callback of the
\* event rebuilt has as many monitors as the slider showed at that moment.
C14_ColumnInSync ==
    /\ Len(column.monitor_data) = column.widgets.num_monitors
    /\ column.exc # "IndexError"
    /\ \A p \in column.rebuilt : p[1] = p[2]

====
